---- MODULE Spec2Model ----
(***************************************************************************)
(* The note-scheduling and judgment engine of the rhythm game: the React   *)
(* component GameScreen (the variant with the miss sweep, the game-over    *)
(* state and restartGame).  Times are milliseconds.  A position is kept    *)
(* multiplied by 16, so that noteY = (gameTime - timing) * NOTE_SPEED / 16 *)
(* is compared exactly, without a division.                                *)
(*                                                                         *)
(* React state is one variable per useState cell.  A handler installed by  *)
(* an effect reads the state of the render in which the effect last ran:   *)
(* the game loop effect depends on gameTime, so its closure always holds   *)
(* the committed gameTime (the clock BEFORE the frame's delta); the        *)
(* keyboard effect depends on [activeKeys, isGameOver] only, so hitNote    *)
(* reads the notes and gameTime of the render that followed the last       *)
(* change of activeKeys or isGameOver (kbNotes, kbGameTime).  Updater      *)
(* functions (setX(prev => ...)) apply to the current state.  Each host    *)
(* callback, with the render and the effects it causes, is one step.       *)
(***************************************************************************)
EXTENDS Integers, Sequences, FiniteSets, TLC

VARIABLES
  song,         \* the song prop: [bpm, difficulty]
  notes,        \* useState<Note[]>
  score, combo, maxCombo, isPaused, gameTime, activeKeys, missCount, isGameOver,
  kbNotes,      \* `notes` as closed over by the installed keydown handler
  kbGameTime,   \* `gameTime` as closed over by the installed keydown handler
  draws,        \* which outcome of Math.random() the current chart was drawn with
  everFailed,   \* history: missCount has reached the fail threshold since the last restart
  missedSinceHit,  \* history: notes that became missed since the last hit (or restart)
  hitsSinceMiss,   \* history: notes that became hit since the last miss (or restart)
  peakCombo,       \* history: the largest value combo has held since the last restart
  restarted,       \* history: restartGame has run since the component was mounted
  perfectHits,     \* history: notes hit at a measured distance < 30 since the last restart
  goodHits         \* history: notes hit at a measured distance >= 30 since the last restart

vars == <<song, notes, score, combo, maxCombo, isPaused, gameTime, activeKeys,
          missCount, isGameOver, kbNotes, kbGameTime, draws,
          everFailed, missedSinceHit, hitsSinceMiss, peakCombo, restarted,
          perfectHits, goodHits>>

----------------------------------------------------------------------------
\* Program constants
LANES == 4
NOTE_SPEED == 2
HIT_ZONE_Y == 550
MISS_THRESHOLD == 650
FrameUnit == 16
HitTolerance == 100
PerfectTolerance == 30
PerfectPoints == 300
GoodPoints == 100
FailThreshold == 10
MsPerMinute == 60000
VisibleAbove == 50      \* getActiveNotes: noteY > -50
VisibleBelow == 700     \* getActiveNotes: noteY < 700

\* Bounds of the model
MaxTime == 8000      \* frames stop being delivered once the clock would pass this
totalBeats == 6      \* beats per chart (60 in the source: a chart of 6 beats already
                     \* holds the 10 notes the fail threshold needs)
MaxSeed == 1         \* the outcomes of the random source that are explored: 1..MaxSeed

\* Frame deltas (ms) the host may measure; the keys the player uses.
Deltas == {0, 800, 1600}
Keys == {0, 2}
Seeds == 1 .. MaxSeed

\* The song played: Racing Into The Night (150 bpm, Normal), whose beat and
\* half beat are whole numbers of ms (60000 / bpm is fractional for 140, 132, 108).
Songs == { [bpm |-> 150, difficulty |-> "Normal"] }

Abs(x) == IF x < 0 THEN -x ELSE x
\* A running maximum that just stores the latest value.
Latest(a, b) == b

Max(a, b) == IF a >= b THEN a ELSE b

----------------------------------------------------------------------------
\* Chart generator

\* The k-th value Math.random() returns, in tenths (0 .. 9), for outcome `seed`.
Random(seed, k) == (9 * seed + 3 * k + 9 * (k \div 7) * seed + 2 * (k \div 7)) % 10

beatInterval(bpm) == MsPerMinute \div bpm

\* A density that treats every difficulty other than Hard as Normal.
notesPerBeatEasyAsNormal(difficulty, r) ==
  IF difficulty = "Hard" THEN (IF r > 3 THEN 2 ELSE 1)
  ELSE (IF r > 5 THEN 2 ELSE 1)

\* r is the draw in tenths: Math.random() > 0.3 is r > 3.
notesPerBeat(difficulty, r) ==
  IF difficulty = "Hard" THEN (IF r > 3 THEN 2 ELSE 1)
  ELSE IF difficulty = "Normal" THEN (IF r > 5 THEN 2 ELSE 1)
  ELSE 1

\* Math.round in place of Math.floor
randomLaneRounded(r) == (r * LANES + 5) \div 10

\* Math.floor(Math.random() * LANES)
randomLane(r) == (r * LANES) \div 10

\* A timing that forgets to divide the offset by notesPerBeat.
noteTimingUnspread(beat, i, n, bi) == beat * bi + i * bi

\* timing: beat * beatInterval + (i * beatInterval / notesPerBeat)
noteTiming(beat, i, n, bi) == beat * bi + (i * bi) \div n

\* The notes of beats beat .. totalBeats-1; k is the number of draws consumed so far.
\* Easy draws no density value (the conditional short-circuits).
RECURSIVE beatsFrom(_, _, _, _)
beatsFrom(sg, seed, beat, k) ==
  IF beat >= totalBeats THEN << >>
  ELSE LET k1 == IF sg.difficulty = "Easy" THEN k ELSE k + 1
           n  == notesPerBeat(sg.difficulty, Random(seed, k))
           bi == beatInterval(sg.bpm)
           beatNotes == [j \in 1 .. n |->
                          [id     |-> <<beat, j - 1>>,
                           lane   |-> randomLane(Random(seed, k1 + j - 1)),
                           timing |-> noteTiming(beat, j - 1, n, bi),
                           hit    |-> FALSE,
                           missed |-> FALSE]]
       IN beatNotes \o beatsFrom(sg, seed, beat + 1, k1 + n)

generateNotes(sg, seed) == beatsFrom(sg, seed, 0, 0)

----------------------------------------------------------------------------
\* Position model (all positions multiplied by FrameUnit)

\* FrameUnit * noteY, for noteY = (t - timing) * NOTE_SPEED / 16
noteY16(t, timing) == (t - timing) * NOTE_SPEED

\* Math.abs(noteY - HIT_ZONE_Y), times FrameUnit
distance16(t, timing) == Abs(noteY16(t, timing) - HIT_ZONE_Y * FrameUnit)

\* A sweep that forgets the `!note.missed` test counts a missed note every frame.
sweepableAgain(t, note) ==
  /\ noteY16(t, note.timing) > MISS_THRESHOLD * FrameUnit
  /\ ~note.hit

\* A sweep whose test of the hit flag has lost its negation.
sweepableNegationLost(t, note) ==
  /\ noteY16(t, note.timing) > MISS_THRESHOLD * FrameUnit
  /\ note.hit
  /\ ~note.missed

\* A sweep that looks only at the notes still inside the visible band.
sweepableVisibleOnly(t, note) ==
  /\ noteY16(t, note.timing) > MISS_THRESHOLD * FrameUnit
  /\ noteY16(t, note.timing) < VisibleBelow * FrameUnit
  /\ ~note.hit
  /\ ~note.missed

\* The condition of the miss sweep, for the clock value t the loop reads.
sweepable(t, note) ==
  /\ noteY16(t, note.timing) > MISS_THRESHOLD * FrameUnit
  /\ ~note.hit
  /\ ~note.missed

\* Off by one: the game ends on the 11th miss.
reachesFailLate(newCount) == newCount > FailThreshold

\* newCount >= 10
reachesFail(newCount) == newCount >= FailThreshold

\* A loop guard that tests isGameOver only keeps ticking while paused.
loopRunsWhenPaused == ~isGameOver

\* A loop guard that tests isPaused only keeps ticking after the game is over.
loopRunsWhenOver == ~isPaused

\* The game loop effect returns without scheduling a frame when paused or over.
loopRuns == ~(isPaused \/ isGameOver)

\* handleKeyDown returns at once when the game is over.
keysIgnored == isGameOver

----------------------------------------------------------------------------
\* hitNote

\* currentNotes: the notes of the lane that are neither hit nor missed.
inCurrentNotes(note, lane) == note.lane = lane /\ ~note.hit /\ ~note.missed

currentNotes(ns, lane) == SelectSeq(ns, LAMBDA note : inCurrentNotes(note, lane))

\* distance < 100
withinTolerance(t, note) == distance16(t, note.timing) < HitTolerance * FrameUnit

\* The forEach loop, from position i of cs on.  cs holds the notes of
\* currentNotes that pass `distance < 100`, in order: the loop body does nothing
\* for the others.  best is closestNote so far (position in cs, 0 for null,
\* when closestDistance is still Infinity).
RECURSIVE closestFrom(_, _, _, _, _)
closestFrom(cs, t, i, best, bestDist) ==
  IF i > Len(cs)
  THEN IF best = 0 THEN [found |-> FALSE]
       ELSE [found |-> TRUE, id |-> cs[best].id, distance |-> bestDist]
  ELSE LET d == distance16(t, cs[i].timing)
       IN IF best = 0 \/ d < bestDist
          THEN closestFrom(cs, t, i + 1, i, d)
          ELSE closestFrom(cs, t, i + 1, best, bestDist)

closestNote(ns, t, lane) ==
  closestFrom(SelectSeq(currentNotes(ns, lane), LAMBDA note : withinTolerance(t, note)),
              t, 1, 0, 0)

\* A scoring that awards the same points whatever the accuracy.
pointsFlat(closestDistance16) == GoodPoints

\* Score based on accuracy: closestDistance < 30 is perfect.
points(closestDistance16) ==
  IF closestDistance16 < PerfectTolerance * FrameUnit THEN PerfectPoints ELSE GoodPoints

\* The earlier variant of hitNote: setCombo(0) when the press found no note.
comboResetOnMissPress(c) == 0

\* What a press that found no note does to combo (nothing, in this variant).
comboAfterMissPress(c) == c

\* A match on the beat part of the id only, as if ids were not unique per note.
sameBeat(note, id) == note.id[1] = id[1]

\* note.id === closestNote.id
sameNote(note, id) == note.id = id

\* hitNote(lane), as called by the installed keydown handler: it reads the
\* notes and the gameTime of the handler's closure and updates the current state.
hitNote(lane) ==
  LET sel == closestNote(kbNotes, kbGameTime, lane)
  IN IF sel.found
     THEN /\ notes' = [i \in DOMAIN notes |->
                         IF sameNote(notes[i], sel.id)
                         THEN [notes[i] EXCEPT !.hit = TRUE] ELSE notes[i]]
          /\ score' = score + points(sel.distance)
          /\ combo' = combo + 1
          /\ maxCombo' = Max(maxCombo, combo + 1)
          /\ missCount' = 0
     ELSE /\ combo' = comboAfterMissPress(combo)
          /\ UNCHANGED <<notes, score, maxCombo, missCount>>

----------------------------------------------------------------------------
\* History variables, updated from what a step did to the notes.

newlyMissed == {i \in DOMAIN notes : ~notes[i].missed /\ notes'[i].missed}
newlyHit == {i \in DOMAIN notes : ~notes[i].hit /\ notes'[i].hit}

Track ==
  /\ everFailed' = (everFailed \/ missCount' >= FailThreshold)
  /\ missedSinceHit' = IF newlyHit # {} THEN 0
                       ELSE missedSinceHit + Cardinality(newlyMissed)
  /\ hitsSinceMiss' = IF newlyMissed # {} THEN 0
                      ELSE hitsSinceMiss + Cardinality(newlyHit)
  /\ peakCombo' = IF combo' > peakCombo THEN combo' ELSE peakCombo
  /\ UNCHANGED restarted

TrackReset ==
  /\ everFailed' = FALSE /\ missedSinceHit' = 0 /\ hitsSinceMiss' = 0
  /\ peakCombo' = 0
  /\ restarted' = TRUE
  /\ perfectHits' = 0 /\ goodHits' = 0

\* The judgment of a press on `lane`: when the press made a note hit, it is
\* counted by the distance the handler measured for it.
TrackJudgment(lane) ==
  LET sel == closestNote(kbNotes, kbGameTime, lane)
      perfect == sel.found /\ sel.distance < PerfectTolerance * FrameUnit
  IN /\ perfectHits' = IF newlyHit # {} /\ perfect THEN perfectHits + 1 ELSE perfectHits
     /\ goodHits' = IF newlyHit # {} /\ ~perfect THEN goodHits + 1 ELSE goodHits

history == <<everFailed, missedSinceHit, hitsSinceMiss, peakCombo, restarted,
             perfectHits, goodHits>>

\* The keyboard effect runs again (deps [activeKeys, isGameOver]): the handler
\* now closes over the state of the render this step ends with.
kbRefresh == kbNotes' = notes' /\ kbGameTime' = gameTime'

\* The dependency list of the earlier variant of the component: [activeKeys].
kbDepsActiveKeysOnly == activeKeys' # activeKeys

\* The keyboard effect's dependency list [activeKeys, isGameOver] has changed.
kbDepsChanged == activeKeys' # activeKeys \/ isGameOver' # isGameOver

\* What a step that is not a key event does to the installed handler.
kbEffect == IF kbDepsChanged THEN kbRefresh ELSE UNCHANGED <<kbNotes, kbGameTime>>

----------------------------------------------------------------------------
\* Operations

\* The interval tick of the earlier variant: setGameTime(prev => prev + 16).
advanceClockFixedTick(prev, deltaTime) == prev + FrameUnit

\* setGameTime(prev => prev + deltaTime)
advanceClock(prev, deltaTime) == prev + deltaTime

\* A sweep that counts the misses but forgets setCombo(0).
gameLoopKeepsCombo(d) ==
  LET swept == {i \in DOMAIN notes : sweepable(gameTime, notes[i])}
      k == Cardinality(swept)
  IN /\ gameTime' = advanceClock(gameTime, d)
     /\ notes' = [i \in DOMAIN notes |->
                    IF i \in swept THEN [notes[i] EXCEPT !.missed = TRUE] ELSE notes[i]]
     /\ missCount' = missCount + k
     /\ isGameOver' = (isGameOver \/ \E j \in 1 .. k : reachesFail(missCount + j))
     /\ UNCHANGED combo

\* One animation frame: gameLoop(currentTime) with deltaTime = d.  The sweep
\* reads `gameTime` of the closure, the clock before d is added.
gameLoop(d) ==
  LET swept == {i \in DOMAIN notes : sweepable(gameTime, notes[i])}
      k == Cardinality(swept)
  IN /\ gameTime' = advanceClock(gameTime, d)
     /\ notes' = [i \in DOMAIN notes |->
                    IF i \in swept THEN [notes[i] EXCEPT !.missed = TRUE] ELSE notes[i]]
     /\ missCount' = missCount + k
     /\ isGameOver' = (isGameOver \/ \E j \in 1 .. k : reachesFail(missCount + j))
     /\ combo' = IF k > 0 THEN 0 ELSE combo

\* The frame the loop effect requested is delivered, with the render and the
\* effects that follow it.
animationFrame(d) ==
  /\ loopRuns
  /\ gameLoop(d)
  /\ UNCHANGED <<song, score, maxCombo, isPaused, activeKeys, draws>>
  /\ kbEffect
  /\ UNCHANGED <<perfectHits, goodHits>>
  /\ Track

Frame(d) ==
  /\ gameTime + d <= MaxTime
  /\ animationFrame(d)

\* keydown of the key of a lane (d, f, j, k)
handleKeyDown(lane) ==
  IF keysIgnored \/ lane \in activeKeys
  THEN UNCHANGED vars
  ELSE /\ activeKeys' = activeKeys \cup {lane}
       /\ hitNote(lane)
       /\ UNCHANGED <<song, isPaused, gameTime, isGameOver, draws>>
       /\ kbRefresh
       /\ Track
       /\ TrackJudgment(lane)

\* keyup of the key of a lane that is held
handleKeyUp(lane) ==
  /\ lane \in activeKeys
  /\ activeKeys' = activeKeys \ {lane}
  /\ UNCHANGED <<song, notes, score, combo, maxCombo, isPaused, gameTime, missCount,
                 isGameOver, draws, history>>
  /\ kbRefresh

\* keydown of the space bar
handleSpace ==
  IF keysIgnored
  THEN UNCHANGED vars
  ELSE /\ isPaused' = ~isPaused
       /\ UNCHANGED <<song, notes, score, combo, maxCombo, gameTime, activeKeys, missCount,
                      isGameOver, kbNotes, kbGameTime, draws, history>>

\* A pause button that also breaks the combo.
pauseButtonBreaksCombo ==
  /\ isPaused' = ~isPaused
  /\ combo' = 0
  /\ UNCHANGED <<song, notes, score, maxCombo, gameTime, activeKeys, missCount,
                 isGameOver, kbNotes, kbGameTime, draws, history>>

\* The pause button of the header: setIsPaused(!isPaused)
pauseButton ==
  /\ isPaused' = ~isPaused
  /\ UNCHANGED <<song, notes, score, combo, maxCombo, gameTime, activeKeys, missCount,
                 isGameOver, kbNotes, kbGameTime, draws, history>>

\* The Resume button of the pause overlay: setIsPaused(false)
resumeButton ==
  /\ isPaused /\ ~isGameOver
  /\ isPaused' = FALSE
  /\ UNCHANGED <<song, notes, score, combo, maxCombo, gameTime, activeKeys, missCount,
                 isGameOver, kbNotes, kbGameTime, draws, history>>

\* A restart that forgets setIsPaused(false).
restartKeepsPause(seed) ==
  /\ score' = 0
  /\ combo' = 0
  /\ maxCombo' = 0
  /\ missCount' = 0
  /\ gameTime' = 0
  /\ isGameOver' = FALSE
  /\ notes' = generateNotes(song, seed)
  /\ UNCHANGED isPaused
  /\ draws' = seed

\* A filter that keeps the note which sits exactly on the lower edge.
isActiveInclusive(t, note) ==
  /\ noteY16(t, note.timing) > -VisibleAbove * FrameUnit
  /\ noteY16(t, note.timing) <= VisibleBelow * FrameUnit
  /\ ~note.hit
  /\ ~note.missed

\* noteY > -50 && noteY < 700 && !note.hit && !note.missed
isActive(t, note) ==
  /\ noteY16(t, note.timing) > -VisibleAbove * FrameUnit
  /\ noteY16(t, note.timing) < VisibleBelow * FrameUnit
  /\ ~note.hit
  /\ ~note.missed

\* getActiveNotes(), as the render calls it: a filter of the notes of the
\* render by the gameTime of the render.
getActiveNotes == SelectSeq(notes, LAMBDA note : isActive(gameTime, note))

\* restartGame, with `seed` the outcome of the random draws of the new chart
restartGame(seed) ==
  /\ score' = 0
  /\ combo' = 0
  /\ maxCombo' = 0
  /\ missCount' = 0
  /\ gameTime' = 0
  /\ isGameOver' = FALSE
  /\ notes' = generateNotes(song, seed)
  /\ isPaused' = FALSE
  /\ draws' = seed

\* The game-over overlay, which holds the only control that calls restartGame,
\* is rendered when isGameOver.
restartOffered == isGameOver

\* The Try Again button of the game-over overlay.
tryAgain ==
  /\ restartOffered
  /\ \E seed \in Seeds : restartGame(seed)
  /\ UNCHANGED <<song, activeKeys>>
  /\ kbEffect
  /\ TrackReset

----------------------------------------------------------------------------
\* The state once the component is mounted: the first render has notes = [],
\* and it is that render's handlers which the keyboard effect installs; the
\* notes effect then sets the generated chart.
InitFrom(seeds) ==
  /\ song \in Songs
  /\ draws \in seeds
  /\ notes = generateNotes(song, draws)
  /\ score = 0 /\ combo = 0 /\ maxCombo = 0
  /\ isPaused = FALSE
  /\ gameTime = 0
  /\ activeKeys = {}
  /\ missCount = 0
  /\ isGameOver = FALSE
  /\ kbNotes = << >>
  /\ kbGameTime = 0
  /\ everFailed = FALSE /\ missedSinceHit = 0 /\ hitsSinceMiss = 0
  /\ peakCombo = 0
  /\ restarted = FALSE
  /\ perfectHits = 0 /\ goodHits = 0

Next ==
  \/ \E d \in Deltas : Frame(d)
  \/ \E lane \in Keys : handleKeyDown(lane)
  \/ \E lane \in Keys : handleKeyUp(lane)
  \/ handleSpace
  \/ pauseButton
  \/ resumeButton
  \/ tryAgain

Init == InitFrom(Seeds)

Spec == Init /\ [][Next]_vars

\* The same program, with more outcomes of the random source explored for the
\* chart the component is mounted with.
MaxFirstSeed == 3

FirstSeeds == 1 .. MaxFirstSeed

InitMoreCharts == InitFrom(FirstSeeds)

SpecMoreCharts == InitMoreCharts /\ [][Next]_vars

----------------------------------------------------------------------------
\* The chart generator on its own: the component is mounted with a song and
\* its first render has notes = []; the notes effect then calls generateNotes.

MaxGenSeed == 4      \* the outcomes of the random source explored for the generator

GenSeeds == 1 .. MaxGenSeed

\* Tempos whose beat and half beat are whole numbers of ms, so that the
\* integer arithmetic of noteTiming is the arithmetic of the source.
GenTempos == {100, 120, 150, 200, 240, 300}

GenSongs == [bpm : GenTempos, difficulty : {"Easy", "Normal", "Hard"}]

GenInit ==
  /\ song \in GenSongs
  /\ draws \in GenSeeds
  /\ notes = << >>
  /\ score = 0 /\ combo = 0 /\ maxCombo = 0
  /\ isPaused = FALSE
  /\ gameTime = 0
  /\ activeKeys = {}
  /\ missCount = 0
  /\ isGameOver = FALSE
  /\ kbNotes = << >>
  /\ kbGameTime = 0
  /\ everFailed = FALSE /\ missedSinceHit = 0 /\ hitsSinceMiss = 0
  /\ peakCombo = 0
  /\ restarted = FALSE
  /\ perfectHits = 0 /\ goodHits = 0

\* useEffect(() => { setNotes(generateNotes()) }, [generateNotes])
notesEffect ==
  /\ notes = << >>
  /\ notes' = generateNotes(song, draws)
  /\ UNCHANGED <<song, score, combo, maxCombo, isPaused, gameTime, activeKeys, missCount,
                 isGameOver, kbNotes, kbGameTime, draws, history>>

GenNext == notesEffect

GenSpec == GenInit /\ [][GenNext]_vars

----------------------------------------------------------------------------
\* A session that is left alone: a fresh session on any song, no key, no
\* pause, and frames with positive deltas that keep coming (the loop effect
\* requests the next frame for as long as it runs).  Charts have totalBeats
\* beats here, so the charts taken are those that hold the FailThreshold notes
\* every chart of the source (60 beats) holds.

LiveMaxTime == 12000   \* frames stop being delivered once the clock would pass this

PositiveDeltas == Deltas \ {0}

LiveInit ==
  /\ song \in GenSongs
  /\ draws \in GenSeeds
  /\ notes = generateNotes(song, draws)
  /\ Len(notes) >= FailThreshold
  /\ score = 0 /\ combo = 0 /\ maxCombo = 0
  /\ isPaused = FALSE
  /\ gameTime = 0
  /\ activeKeys = {}
  /\ missCount = 0
  /\ isGameOver = FALSE
  /\ kbNotes = << >>
  /\ kbGameTime = 0
  /\ everFailed = FALSE /\ missedSinceHit = 0 /\ hitsSinceMiss = 0
  /\ peakCombo = 0
  /\ restarted = FALSE
  /\ perfectHits = 0 /\ goodHits = 0

frameTick ==
  \E d \in PositiveDeltas : gameTime + d <= LiveMaxTime /\ animationFrame(d)

LiveNext == frameTick

LiveSpec == LiveInit /\ [][LiveNext]_vars /\ WF_vars(frameTick)

----------------------------------------------------------------------------
\* The chart generator given a song whose tempo is not positive.  The source
\* divides by song.bpm as it is: a negative tempo gives a negative
\* beatInterval (tempo 0 gives Infinity and NaN timings, which this integer
\* model leaves out).

NegativeTempos == {-300, -240, -200, -150, -120, -100}

BadTempoSongs == [bpm : NegativeTempos, difficulty : {"Easy", "Normal", "Hard"}]

BadTempoInit ==
  /\ song \in BadTempoSongs
  /\ draws \in GenSeeds
  /\ notes = << >>
  /\ score = 0 /\ combo = 0 /\ maxCombo = 0
  /\ isPaused = FALSE
  /\ gameTime = 0
  /\ activeKeys = {}
  /\ missCount = 0
  /\ isGameOver = FALSE
  /\ kbNotes = << >>
  /\ kbGameTime = 0
  /\ everFailed = FALSE /\ missedSinceHit = 0 /\ hitsSinceMiss = 0
  /\ peakCombo = 0
  /\ restarted = FALSE
  /\ perfectHits = 0 /\ goodHits = 0

BadTempoNext == notesEffect

BadTempoSpec == BadTempoInit /\ [][BadTempoNext]_vars

----------------------------------------------------------------------------
\* Vocabulary of the claims

Pending(note) == ~note.hit /\ ~note.missed

lifecycle == IF isGameOver THEN "GameOver" ELSE IF isPaused THEN "Paused" ELSE "Running"

\* A step in which restartGame replaced the session.
RestartStep == isGameOver /\ ~isGameOver'

\* A keydown of the key of `lane` that is not a key repeat: press(lane).
PressStep(lane) == lane \notin activeKeys /\ activeKeys' = activeKeys \cup {lane}

\* The notes press(lane) may select by the contract: pending in the lane in the
\* current state, with 3600 < clock - scheduledTime < 5200 at the current clock.
Qualifying(lane) ==
  {i \in DOMAIN notes :
     /\ notes[i].lane = lane
     /\ Pending(notes[i])
     /\ 3600 < gameTime - notes[i].timing
     /\ gameTime - notes[i].timing < 5200}

\* 8 * |position - 550| at the current clock
Off8(i) == Abs((gameTime - notes[i].timing) - 4400)

Closest(lane) == {i \in Qualifying(lane) : \A j \in Qualifying(lane) : Off8(i) <= Off8(j)}

----------------------------------------------------------------------------
\* C1: every note is in exactly one of Pending, Hit, Missed (never both hit and
\* missed), and a note that has left Pending keeps its status until restart
\* replaces the notes.
C1_StatusTransitionsOnce ==
  [][ RestartStep \/
      \A i \in DOMAIN notes :
         /\ ~(notes'[i].hit /\ notes'[i].missed)
         /\ (~Pending(notes[i]) => notes'[i] = notes[i]) ]_vars

\* C2: a press while Running selects, among the notes pending in the lane at
\* the moment of the press, one of least |position - 550| at the current clock,
\* provided that distance is < 100; it selects nothing when there is none.
C2_PressSelectsClosestAtCurrentClock ==
  [][ \A lane \in Keys :
        (lifecycle = "Running" /\ PressStep(lane)) =>
           /\ Cardinality(newlyHit) <= 1
           /\ newlyHit \subseteq Closest(lane)
           /\ (Qualifying(lane) # {} => newlyHit # {}) ]_vars

\* C3: after a frame that advanced the clock by d while Running, no note is
\* still pending whose position at the new clock exceeds 650; every note the
\* sweep took became missed, with combo 0 and missCount one more per note.
C3_SweepUsesAdvancedClock ==
  [][ (\E d \in Deltas : Frame(d)) =>
        /\ \A i \in DOMAIN notes :
              Pending(notes'[i]) => ~(gameTime' - notes'[i].timing > 5200)
        /\ missCount' = missCount + Cardinality(newlyMissed)
        /\ (newlyMissed # {} => combo' = 0) ]_vars

\* C4: the game is over exactly when missCount has reached the fail threshold
\* at some point since the last restart (so it becomes over in the very step
\* in which the threshold is first reached).
C4_GameOverIffThresholdReached == isGameOver <=> everFailed

C4_Witness == isGameOver /\ everFailed /\ missCount >= FailThreshold

\* C5: GameOver is terminal: from a game-over state every step other than
\* restart keeps the game over and leaves clock, score, combo, maxCombo,
\* missCount and the notes as they are.
C5_GameOverTerminal ==
  [][ isGameOver =>
        \/ RestartStep
        \/ /\ isGameOver'
           /\ UNCHANGED <<gameTime, score, combo, maxCombo, missCount, notes>> ]_vars

\* The pause button was used while the game was over (the loop leaves
\* isPaused false when it ends the game, and the space bar is ignored).
C5_Witness == isGameOver /\ isPaused /\ gameTime > 0

\* C6: a press while Paused changes no note and none of score, combo,
\* maxCombo, missCount.
C6_PressWhilePausedIsNoOp ==
  [][ \A lane \in Keys :
        (lifecycle = "Paused" /\ PressStep(lane)) =>
           UNCHANGED <<notes, score, combo, maxCombo, missCount>> ]_vars

\* C7: a press while Running on a lane that has a qualifying note hits one,
\* awards 300 points if its distance is < 30 (|clock - scheduledTime - 4400| <
\* 240) and 100 otherwise, adds 1 to combo, raises maxCombo to it and zeroes
\* missCount; in particular the press at clock = scheduledTime + 4400.
C7_HitAwardsByAccuracy ==
  [][ \A lane \in Keys :
        (lifecycle = "Running" /\ PressStep(lane) /\ Qualifying(lane) # {}) =>
           \E i \in Closest(lane) :
              /\ notes'[i].hit
              /\ score' = score + (IF Off8(i) < 240 THEN 300 ELSE 100)
              /\ combo' = combo + 1
              /\ maxCombo' = Max(maxCombo, combo + 1)
              /\ missCount' = 0 ]_vars

\* C8: a press while Running on a lane with no pending note within the
\* tolerance changes nothing of the session.
C8_NoTargetChangesNothing ==
  [][ \A lane \in Keys :
        (lifecycle = "Running" /\ PressStep(lane) /\ Qualifying(lane) = {}) =>
           UNCHANGED <<score, combo, maxCombo, missCount, gameTime, isPaused,
                       isGameOver, notes>> ]_vars

\* C9: missCount is the number of notes that became missed since the last hit
\* (or restart): each missed note is counted once, and a hit zeroes the count.
C9_MissStreakCountsMisses == missCount = missedSinceHit

\* Two misses were counted after an earlier hit.
C9_Witness == missCount >= 2 /\ score > 0 /\ missCount = missedSinceHit

\* C10: combo is the number of notes that became hit since the last miss
\* (or restart).
C10_ComboCountsHits == combo = hitsSinceMiss

\* Two hits in a row after an earlier miss.
C10_Witness == combo >= 2 /\ (\E i \in DOMAIN notes : notes[i].missed) /\ combo = hitsSinceMiss


\* C11: maxCombo is the largest value combo has held since the last restart;
\* so combo <= maxCombo in every state, and no step other than a restart
\* lowers maxCombo.
C11_MaxComboIsRunningMaximum ==
  /\ [](maxCombo = peakCombo /\ combo <= maxCombo)
  /\ [][RestartStep \/ maxCombo' >= maxCombo]_vars

\* A miss has reset combo and a later hit raised it again, below the maximum.
C11_Witness == combo >= 1 /\ maxCombo > combo /\ maxCombo = peakCombo
C13_AdvanceZeroChangesNothing ==
  [][Frame(0) => UNCHANGED <<notes, score, combo, maxCombo, missCount, gameTime,
                             isPaused, isGameOver>>]_vars
\* C14: while lifecycle is Paused no frame has any effect: the clock stays
\* frozen, no note becomes Missed, lifecycle does not go to GameOver, and a
\* step that is not a key press or release leaves the notes, score, combo,
\* maxCombo and missStreak unchanged.
C14_PausedFramesAreNoOps ==
  [][lifecycle = "Paused" =>
       /\ gameTime' = gameTime
       /\ newlyMissed = {}
       /\ lifecycle' # "GameOver"
       /\ (activeKeys' = activeKeys =>
             UNCHANGED <<notes, score, combo, maxCombo, missCount>>)]_vars

\* Paused one miss short of the threshold, with a note past the miss line
\* that the next frame would sweep.
C14_Witness ==
  /\ lifecycle = "Paused"
  /\ missCount = FailThreshold - 1
  /\ \E i \in DOMAIN notes : sweepable(gameTime, notes[i])
\* C15: frames and presses are serialized on one state: a press while Running
\* has the outcome hitNote has on the current notes and the current clock
\* (those left by every earlier frame and press), and a sweep never marks
\* Missed a note that an earlier press has Hit.
C15_PressJudgedOnCurrentState ==
  [][/\ \A lane \in Keys :
          (lifecycle = "Running" /\ PressStep(lane)) =>
             LET sel == closestNote(notes, gameTime, lane)
             IN IF sel.found
                THEN /\ \A i \in DOMAIN notes :
                          notes'[i].hit = (notes[i].hit \/ notes[i].id = sel.id)
                     /\ score' = score + points(sel.distance)
                ELSE UNCHANGED <<notes, score>>
     /\ \A i \in newlyMissed : ~notes[i].hit]_vars
\* The notes and the clock that the installed key handler reads are a past
\* state of the current session: the current chart, with no status that the
\* current notes do not have, at a clock not after the current one.
SnapshotOfSession ==
  /\ Len(kbNotes) = Len(notes)
  /\ \A i \in DOMAIN notes :
        /\ kbNotes[i].id = notes[i].id
        /\ kbNotes[i].lane = notes[i].lane
        /\ kbNotes[i].timing = notes[i].timing
        /\ (kbNotes[i].hit => notes[i].hit)
        /\ (kbNotes[i].missed => notes[i].missed)
  /\ kbGameTime <= gameTime

\* C16: a restart replaces everything frames and presses work on: after it,
\* no press is judged against notes or a clock from before the restart, and
\* a note becomes Missed only once the new clock exceeds its scheduledTime
\* by more than 5200 ms.
C16_RestartSupersedesSnapshots ==
  /\ [](restarted => SnapshotOfSession)
  /\ [][(restarted /\ ~RestartStep) =>
          \A i \in newlyMissed : gameTime' - notes[i].timing > 5200]_vars

\* After a restart, notes of the new chart have been hit and missed.
C16_Witness ==
  /\ restarted /\ SnapshotOfSession
  /\ \E i \in DOMAIN notes : notes[i].missed
  /\ \E i \in DOMAIN notes : notes[i].hit /\ ~notes[i].missed
\* C17: score is 300 for every note hit as Perfect plus 100 for every note hit
\* as Good since the last restart; it is never negative, it changes only in a
\* step in which exactly one note becomes Hit, and only a restart lowers it.
C17_ScoreIsSumOfAwards ==
  /\ [](score = 300 * perfectHits + 100 * goodHits /\ score >= 0)
  /\ [][RestartStep \/ /\ score' >= score
                        /\ (score' # score => Cardinality(newlyHit) = 1)]_vars

\* Both kinds of hit have been awarded.
C17_Witness ==
  /\ perfectHits >= 1 /\ goodHits >= 1
  /\ score = 300 * perfectHits + 100 * goodHits
\* C18: a frame that runs while Running adds exactly its measured delta d to
\* the clock; no step lowers the clock except a restart, which sets it to 0.
C18_ClockAdvancesByDelta ==
  [][/\ \A d \in Deltas :
          (lifecycle = "Running" /\ Frame(d)) => gameTime' = gameTime + d
     /\ (RestartStep \/ gameTime' >= gameTime)
     /\ (RestartStep => gameTime' = 0)]_vars

\* The clock has been reset by a restart and advanced again by frames.
C18_Witness == restarted /\ lifecycle = "Running" /\ gameTime = 2400
\* C19: a pause toggle (space bar, pause button, Resume button) changes the
\* pause flag and nothing else: the clock, score, combo, maxCombo, missStreak
\* and every note are as before, so a pause followed at once by a resume
\* gives back the state before the pause.
C19_PauseToggleChangesOnlyLifecycle ==
  [][(isPaused' # isPaused /\ ~RestartStep) =>
       /\ UNCHANGED <<gameTime, score, combo, maxCombo, missCount, notes, isGameOver>>
       /\ UNCHANGED <<song, activeKeys, kbNotes, kbGameTime, draws>>
       /\ (lifecycle = "Running" => lifecycle' = "Paused")
       /\ (lifecycle = "Paused" => lifecycle' = "Running")]_vars

\* Paused in the middle of a session, with every counter in use.
C19_Witness ==
  /\ lifecycle = "Paused" /\ gameTime > 0
  /\ score > 0 /\ combo > 0 /\ maxCombo > combo
  /\ \E i \in DOMAIN notes : notes[i].missed
\* C20: whatever the tempo, the difficulty and the random draws, the chart is
\* in ascending order of scheduledTime as constructed, and every note of beat
\* b is scheduled in [b * beatInterval, (b + 1) * beatInterval).
C20_ChartSortedWithinBeats ==
  /\ \A i, j \in DOMAIN notes : i < j => notes[i].timing <= notes[j].timing
  /\ \A i \in DOMAIN notes :
        LET b == notes[i].id[1]
            bi == MsPerMinute \div song.bpm
        IN b * bi <= notes[i].timing /\ notes[i].timing < (b + 1) * bi

\* A generated chart in which some beat holds two notes.
C20_Witness ==
  /\ Len(notes) > totalBeats
  /\ \E i \in DOMAIN notes : notes[i].id[2] = 1 /\ notes[i].timing > notes[i - 1].timing
\* The positions in the chart of the notes of beat b.
NotesOfBeat(b) == {i \in DOMAIN notes : notes[i].id[1] = b}

\* C21: every beat of the session holds 1 or 2 notes, exactly 1 on Easy, one
\* of them at the start of the beat; so a chart has between totalBeats and
\* 2 * totalBeats notes, and an Easy chart is one note at every beat start.
C21_OneOrTwoNotesPerBeat ==
  notes # << >> =>
    LET bi == MsPerMinute \div song.bpm
    IN /\ \A i \in DOMAIN notes : notes[i].id[1] \in 0 .. totalBeats - 1
       /\ \A b \in 0 .. totalBeats - 1 :
             /\ Cardinality(NotesOfBeat(b)) \in {1, 2}
             /\ (song.difficulty = "Easy" => Cardinality(NotesOfBeat(b)) = 1)
             /\ \E i \in NotesOfBeat(b) : notes[i].timing = b * bi
       /\ totalBeats <= Len(notes) /\ Len(notes) <= 2 * totalBeats
       /\ (song.difficulty = "Easy" =>
             /\ Len(notes) = totalBeats
             /\ \A i \in DOMAIN notes : notes[i].timing = (i - 1) * bi)

\* A generated chart with a beat of one note and a beat of two.
C21_Witness ==
  /\ notes # << >>
  /\ \E b \in 0 .. totalBeats - 1 : Cardinality(NotesOfBeat(b)) = 1
  /\ \E b \in 0 .. totalBeats - 1 : Cardinality(NotesOfBeat(b)) = 2
\* C22: a chart generated for a tempo that is not positive is the chart of a
\* positive tempo: every scheduledTime is non-negative and the chart is in
\* ascending order of scheduledTime.
C22_NonPositiveTempoClamped ==
  /\ \A i \in DOMAIN notes : notes[i].timing >= 0
  /\ \A i, j \in DOMAIN notes : i < j => notes[i].timing <= notes[j].timing
\* C23: when several Pending notes of the pressed lane are at the same, least
\* distance from the hit line (within tolerance), the press makes Hit the one
\* of them with the smallest scheduledTime, and the others stay Pending.
C23_TieGoesToEarlierNote ==
  [][\A lane \in Keys :
       (lifecycle = "Running" /\ PressStep(lane) /\ Cardinality(Closest(lane)) >= 2) =>
          \E i \in Closest(lane) :
             /\ \A j \in Closest(lane) : notes[i].timing <= notes[j].timing
             /\ newlyHit = {i}
             /\ \A j \in Closest(lane) \ {i} : Pending(notes'[j])]_vars
\* C24: a note becomes Hit only while its position at the current clock is
\* strictly between 450 and 650: a note past the miss line, swept or not, is
\* never hit by a press.
C24_NoHitOutsideWindow ==
  [][RestartStep \/
     \A i \in newlyHit :
        /\ noteY16(gameTime, notes[i].timing) > (HIT_ZONE_Y - HitTolerance) * FrameUnit
        /\ noteY16(gameTime, notes[i].timing) < MISS_THRESHOLD * FrameUnit]_vars
\* The positions of the notes that a step changes.
ChangedNotes == {i \in DOMAIN notes : notes'[i] # notes[i]}

\* C25: the ids of a chart are pairwise different, and a press that finds a
\* note changes that note from not hit to hit and no other note; a press
\* that finds none changes no note.
C25_PressChangesExactlyOneNote ==
  /\ [](\A i, j \in DOMAIN notes : notes[i].id = notes[j].id => i = j)
  /\ [][\A lane \in Keys :
          (~keysIgnored /\ PressStep(lane)) =>
             LET sel == closestNote(kbNotes, kbGameTime, lane)
             IN IF sel.found
                THEN /\ Cardinality(ChangedNotes) = 1
                     /\ ChangedNotes = newlyHit
                     /\ \A i \in ChangedNotes : notes[i].id = sel.id
                ELSE ChangedNotes = {}]_vars

\* A note has been hit while another Pending note of its lane was within
\* tolerance too, and that one is still Pending.
C25_Witness ==
  \E i, j \in DOMAIN notes :
     /\ i # j /\ notes[i].lane = notes[j].lane
     /\ notes[i].hit /\ Pending(notes[j])
     /\ kbGameTime = gameTime
     /\ withinTolerance(gameTime, notes[i]) /\ withinTolerance(gameTime, notes[j])
\* C26: in every state each note's lane is in [0, 4) and the notes are in
\* ascending order of scheduledTime; and no step other than a restart changes
\* the number of notes, their order, or the id, lane or scheduledTime of one.
C26_NotesFixedBetweenRestarts ==
  /\ [](/\ \A i \in DOMAIN notes : notes[i].lane \in 0 .. LANES - 1
        /\ \A i, j \in DOMAIN notes : i < j => notes[i].timing <= notes[j].timing)
  /\ [][RestartStep \/
          /\ Len(notes') = Len(notes)
          /\ \A i \in DOMAIN notes :
                /\ notes'[i].id = notes[i].id
                /\ notes'[i].lane = notes[i].lane
                /\ notes'[i].timing = notes[i].timing]_vars

\* Frames, presses and a pause toggle have all acted on the chart.
C26_Witness ==
  /\ lifecycle = "Paused" /\ gameTime > 0
  /\ \E i \in DOMAIN notes : notes[i].hit
  /\ \E i \in DOMAIN notes : notes[i].missed /\ ~notes[i].hit
\* C27: visibleNotes returns, in chart order and once each, exactly the notes
\* that are Pending and whose position (clock - scheduledTime) * 2 / 16 is
\* strictly between -50 and 700 (clock - scheduledTime strictly between -400
\* and 5600 ms); a note that is Hit or Missed is never returned.
C27_VisibleNotesArePendingInBand ==
  LET vis == getActiveNotes
  IN /\ \A i \in DOMAIN notes :
          (\E k \in DOMAIN vis : vis[k] = notes[i]) <=>
             /\ Pending(notes[i])
             /\ -400 < gameTime - notes[i].timing
             /\ gameTime - notes[i].timing < 5600
     /\ \A k \in 1 .. Len(vis) - 1 :
          \E i \in DOMAIN notes :
             vis[k] = notes[i] /\ \E j \in i + 1 .. Len(notes) : vis[k + 1] = notes[j]
     /\ \A k \in DOMAIN vis : ~vis[k].hit /\ ~vis[k].missed

\* Some notes are visible, one Pending note sits exactly at position 700 and
\* is not, and a note has been hit.
C27_Witness ==
  /\ Len(getActiveNotes) > 0
  /\ \E i \in DOMAIN notes : Pending(notes[i]) /\ gameTime - notes[i].timing = 5600
  /\ \E i \in DOMAIN notes : notes[i].hit
\* C28: missStreak stays within 0 .. 10 in every state, so the number of
\* misses left that the danger banner shows (10 - missStreak) is never
\* negative.
C28_MissStreakWithinThreshold ==
  /\ 0 <= missCount /\ missCount <= FailThreshold
  /\ FailThreshold - missCount >= 0
\* C29: misses happen in chart order: when a note is Missed, no note of the
\* session with a smaller or equal scheduledTime is still Pending.
C29_MissesInChartOrder ==
  \A i, j \in DOMAIN notes :
     (notes[i].missed /\ notes[j].timing <= notes[i].timing) => ~Pending(notes[j])

\* A note was hit, a later note was missed, and later notes are still Pending.
C29_Witness ==
  \E k, i, j \in DOMAIN notes :
     /\ k < i /\ i < j
     /\ notes[k].hit /\ ~notes[k].missed
     /\ notes[i].missed /\ ~notes[i].hit
     /\ Pending(notes[j])
\* C30: a fresh session in which no key is pressed, the game is never paused
\* and frames with positive deltas keep coming eventually reaches GameOver,
\* whatever the chart.
C30_UnattendedSessionFails == <>(lifecycle = "GameOver")

\* The game is over without a single key event: ten notes were swept.
C30_Witness ==
  /\ lifecycle = "GameOver"
  /\ kbGameTime > 0 /\ activeKeys = {}
  /\ Cardinality({i \in DOMAIN notes : notes[i].missed}) >= FailThreshold
\* C31: combo and missStreak are never both positive: a positive combo means
\* missStreak is 0, and a positive missStreak means combo is 0.
C31_ComboAndMissStreakExclusive ==
  /\ (combo > 0 => missCount = 0)
  /\ (missCount > 0 => combo = 0)

\* A miss has broken a combo: the streak counts and the combo is back at 0.
C31_Witness == missCount > 0 /\ combo = 0 /\ maxCombo >= 2 /\ ~isGameOver
====
